---- MODULE Spec2Model ----
(***************************************************************************)
(* Ticket-triage workflow of app/graph.py: the LangGraph pipeline          *)
(*   ingest -> classify_issue -> (fetch_order) -> draft_reply -> END       *)
(* driven by run_triage(ticket_text, order_id).                            *)
(*                                                                         *)
(* Representation of Python values:                                        *)
(*   - a str the code scans, transforms or concatenates (ticket text,      *)
(*     order ids, keywords, templates, replies, evidence, error messages,  *)
(*     customer names) is a sequence of one-character strings;             *)
(*   - a str the code only passes around or compares as a whole            *)
(*     (issue_type, recommendation, status, item names, node names) is a   *)
(*     TLA+ string;                                                        *)
(*   - a dict is a function whose domain is the set of its keys;           *)
(*   - Python's None is None where a str is expected and Null where a      *)
(*     dict is expected (TLC cannot compare a record with a sequence).     *)
(***************************************************************************)
EXTENDS Integers, Sequences, FiniteSets, TLC

VARIABLES
    ORDERS,           \* module global ORDERS (orders.json)
    ISSUES,           \* module global ISSUES (issues.json), ordered rules
    REPLIES,          \* module global REPLIES (replies.json)
    RECOMMENDATIONS,  \* module global RECOMMENDATIONS
    pc,               \* "idle", or the node the graph executes next, or "END"
    args,             \* arguments of the run_triage call in progress / last made
    state,            \* the TriageState threaded through the graph
    trace,            \* nodes executed so far by the current invocation
    result,           \* value returned by the last completed run_triage
    memo,             \* one remembered earlier call: its arguments and Result
    peer              \* a second run_triage invocation, running at the same time

vars == <<ORDERS, ISSUES, REPLIES, RECOMMENDATIONS, pc, args, state, trace, result, memo,
          peer>>

store == <<ORDERS, ISSUES, REPLIES, RECOMMENDATIONS>>

\* ---------------------------------------------------------------------------
\* Python values
\* ---------------------------------------------------------------------------
None == <<"None">>

Null == [None |-> TRUE]

EmptyDict == [k \in {} |-> k]

\* d.get(k, default)
DictGet(d, k, default) == IF k \in DOMAIN d THEN d[k] ELSE default

\* truthiness of an optional str: neither None nor ""
Truthy(s) == s # None /\ s # <<>>

\* ---------------------------------------------------------------------------
\* str operations
\* ---------------------------------------------------------------------------
LowerLetters ==
    <<"a", "b", "c", "d", "e", "f", "g", "h", "i", "j", "k", "l", "m",
      "n", "o", "p", "q", "r", "s", "t", "u", "v", "w", "x", "y", "z">>

UpperLetters ==
    <<"A", "B", "C", "D", "E", "F", "G", "H", "I", "J", "K", "L", "M",
      "N", "O", "P", "Q", "R", "S", "T", "U", "V", "W", "X", "Y", "Z">>

\* the texts considered are ASCII: \d, upper() and lower() are modelled on the
\* ASCII digits and letters
Digits == {"0", "1", "2", "3", "4", "5", "6", "7", "8", "9"}

UpperChar(c) ==
    IF \E i \in 1..26 : LowerLetters[i] = c
    THEN UpperLetters[CHOOSE i \in 1..26 : LowerLetters[i] = c]
    ELSE c

LowerChar(c) ==
    IF \E i \in 1..26 : UpperLetters[i] = c
    THEN LowerLetters[CHOOSE i \in 1..26 : UpperLetters[i] = c]
    ELSE c

\* s.upper()
Upper(s) == [i \in 1..Len(s) |-> UpperChar(s[i])]

\* s.lower()
Lower(s) == [i \in 1..Len(s) |-> LowerChar(s[i])]

\* positions at which sub occurs in s
Occurrences(sub, s) ==
    {i \in 1..(Len(s) - Len(sub) + 1) : SubSeq(s, i, i + Len(sub) - 1) = sub}

\* sub in s
Contains(sub, s) == Occurrences(sub, s) # {}

\* s.replace(old, new): the occurrences of old are replaced from left to right,
\* the search resuming after each replaced occurrence; old is non-empty
RECURSIVE Replace(_, _, _)
Replace(s, old, new) ==
    LET occ == Occurrences(old, s)
        i   == CHOOSE k \in occ : \A j \in occ : k <= j
    IN  IF occ = {} THEN s
        ELSE SubSeq(s, 1, i - 1) \o new
                 \o Replace(SubSeq(s, i + Len(old), Len(s)), old, new)

\* the pattern (ORD\d{4}) with re.IGNORECASE matches s at position i
OrderIdMatchAt(s, i) ==
    /\ i + 6 <= Len(s)
    /\ UpperChar(s[i]) = "O"
    /\ UpperChar(s[i + 1]) = "R"
    /\ UpperChar(s[i + 2]) = "D"
    /\ \A j \in (i + 3)..(i + 6) : s[j] \in Digits

\* variant of ReSearchOrderId: the pattern asks for two digits only, (ORD\d{2})
ReSearchOrderId_TwoDigits(s) ==
    LET found == {i \in 1..(Len(s) - 4) :
                     /\ <<UpperChar(s[i]), UpperChar(s[i + 1]), UpperChar(s[i + 2])>>
                            = <<"O", "R", "D">>
                     /\ s[i + 3] \in Digits /\ s[i + 4] \in Digits}
        i     == CHOOSE k \in found : \A j \in found : k <= j
    IN  IF found = {} THEN None ELSE SubSeq(s, i, i + 4)

\* variant of ReSearchOrderId: the rightmost match is taken
ReSearchOrderId_Last(s) ==
    LET found == {i \in 1..Len(s) : OrderIdMatchAt(s, i)}
        i     == CHOOSE k \in found : \A j \in found : j <= k
    IN  IF found = {} THEN None ELSE SubSeq(s, i, i + 6)

\* re.search(r"(ORD\d{4})", s, re.IGNORECASE): group(1) of the leftmost match, or None
ReSearchOrderId(s) ==
    LET found == {i \in 1..Len(s) : OrderIdMatchAt(s, i)}
        i     == CHOOSE k \in found : \A j \in found : k <= j
    IN  IF found = {} THEN None ELSE SubSeq(s, i, i + 6)

\* ---------------------------------------------------------------------------
\* Lookup store contents (mock_data/*.json) and RECOMMENDATIONS
\* ---------------------------------------------------------------------------
MockOrders ==
    << [order_id |-> <<"O", "R", "D", "1", "0", "0", "1">>,
        customer_name |-> <<"J", "a", "n", "e", " ", "D", "o", "e">>,
        status |-> "delivered",
        items |-> << [name |-> "Lamp", quantity |-> 1] >>],
       [order_id |-> <<"O", "R", "D", "1", "0", "0", "2">>,
        customer_name |-> <<"B", "o", "b">>,
        status |-> "shipped",
        items |-> << [name |-> "Mug", quantity |-> 2],
                     [name |-> "Pen", quantity |-> 1] >>],
       \* a customer name that itself reads like a placeholder
       [order_id |-> <<"O", "R", "D", "1", "0", "0", "3">>,
        customer_name |-> <<"{", "{", "o", "r", "d", "e", "r", "_", "i", "d", "}", "}">>,
        status |-> "processing",
        items |-> << [name |-> "Cap", quantity |-> 1] >>] >>

\* two rule lists: the keywords "broken" and "broke" in either order; the second
\* list ends with a rule whose issue_type has no entry in RECOMMENDATIONS and no
\* reply template
MockIssuesA ==
    << [keyword |-> <<"r", "e", "f", "u", "n", "d">>, issue_type |-> "refund_request"],
       [keyword |-> <<"b", "r", "o", "k", "e", "n">>, issue_type |-> "damaged_item"],
       [keyword |-> <<"b", "r", "o", "k", "e">>, issue_type |-> "defective_product"],
       [keyword |-> <<"l", "a", "t", "e">>, issue_type |-> "late_delivery"] >>

MockIssuesB ==
    << [keyword |-> <<"l", "a", "t", "e">>, issue_type |-> "late_delivery"],
       [keyword |-> <<"b", "r", "o", "k", "e">>, issue_type |-> "defective_product"],
       [keyword |-> <<"b", "r", "o", "k", "e", "n">>, issue_type |-> "damaged_item"],
       [keyword |-> <<"r", "e", "f", "u", "n", "d">>, issue_type |-> "refund_request"],
       [keyword |-> <<"o", "r", "d">>, issue_type |-> "order_inquiry"] >>

\* defective_product has no template of its own and falls back to the default
MockReplies ==
    << [issue_type |-> "damaged_item",
        template |-> <<"H", "i", " ", "{", "{", "c", "u", "s", "t", "o", "m", "e", "r",
                       "_", "n", "a", "m", "e", "}", "}", ",", " ", "r", "e", "p", "l",
                       "a", "c", "i", "n", "g", " ", "{", "{", "o", "r", "d", "e", "r",
                       "_", "i", "d", "}", "}", ".">>],
       [issue_type |-> "refund_request",
        template |-> <<"{", "{", "o", "r", "d", "e", "r", "_", "i", "d", "}", "}", ":",
                       " ", "r", "e", "f", "u", "n", "d", " ", "f", "o", "r", " ", "{",
                       "{", "c", "u", "s", "t", "o", "m", "e", "r", "_", "n", "a", "m",
                       "e", "}", "}">>],
       [issue_type |-> "late_delivery",
        template |-> <<"{", "{", "c", "u", "s", "t", "o", "m", "e", "r", "_", "n", "a",
                       "m", "e", "}", "}", ",", " ", "E", "T", "A", " ", "s", "o", "o",
                       "n">>] >>

RecommendationMap ==
    [refund_request    |-> "Process refund for the customer",
     damaged_item      |-> "Send replacement item to customer",
     late_delivery     |-> "Track package and provide updated ETA",
     missing_item      |-> "Investigate and ship missing item",
     duplicate_charge  |-> "Refund the duplicate charge",
     wrong_item        |-> "Arrange return and send correct item",
     defective_product |-> "Honor warranty and replace product",
     unknown           |-> "Escalate to human agent for review"]

\* ---------------------------------------------------------------------------
\* Messages and JSON
\* ---------------------------------------------------------------------------
HumanMessage(content) == [type |-> "human", content |-> content]

AIMessage(content, tool_calls) ==
    [type |-> "ai", content |-> content, tool_calls |-> tool_calls]

ToolMessage(content, name, tool_call_id) ==
    [type |-> "tool", content |-> content, name |-> name, tool_call_id |-> tool_call_id]

\* order in which json.dumps writes the keys of the dicts fetch_order_tool returns
KeyOrder == <<"order_id", "customer_name", "status", "items", "error">>

\* variant of json_dumps: nested values (the items list) are not serialised
json_dumps_NoItems(d) ==
    LET ks == SelectSeq(KeyOrder, LAMBDA k : k \in DOMAIN d /\ k # "items")
    IN  [i \in 1..Len(ks) |-> <<ks[i], d[ks[i]]>>]

\* json.dumps(d): the serialised object, one <<key, value>> member after the other
json_dumps(d) ==
    LET ks == SelectSeq(KeyOrder, LAMBDA k : k \in DOMAIN d)
    IN  [i \in 1..Len(ks) |-> <<ks[i], d[ks[i]]>>]

\* json.loads(s): the dict of the members of s; a repeated key keeps its last value
json_loads(s) ==
    [k \in {s[i][1] : i \in 1..Len(s)} |->
        s[CHOOSE i \in 1..Len(s) :
              /\ s[i][1] = k
              /\ \A j \in (i + 1)..Len(s) : s[j][1] # k][2]]

\* ---------------------------------------------------------------------------
\* Tool and nodes: each node maps the state to the update it returns
\* ---------------------------------------------------------------------------
\* variant of fetch_order_tool: ids are compared without regard to case
fetch_order_tool_AnyCase(order_id) ==
    IF \E i \in 1..Len(ORDERS) : Upper(ORDERS[i].order_id) = Upper(order_id)
    THEN ORDERS[CHOOSE i \in 1..Len(ORDERS) :
                    /\ Upper(ORDERS[i].order_id) = Upper(order_id)
                    /\ \A j \in 1..(i - 1) : Upper(ORDERS[j].order_id) # Upper(order_id)]
    ELSE [error |-> <<"O", "r", "d", "e", "r", " ">> \o order_id
                    \o <<" ", "n", "o", "t", " ", "f", "o", "u", "n", "d">>]

\* variant of fetch_order_tool: a missing order yields {} instead of the error dict
fetch_order_tool_Empty(order_id) ==
    IF \E i \in 1..Len(ORDERS) : ORDERS[i].order_id = order_id
    THEN ORDERS[CHOOSE i \in 1..Len(ORDERS) :
                    /\ ORDERS[i].order_id = order_id
                    /\ \A j \in 1..(i - 1) : ORDERS[j].order_id # order_id]
    ELSE EmptyDict

\* next((o for o in ORDERS if o["order_id"] == order_id), None), then the error dict
fetch_order_tool(order_id) ==
    IF \E i \in 1..Len(ORDERS) : ORDERS[i].order_id = order_id
    THEN ORDERS[CHOOSE i \in 1..Len(ORDERS) :
                    /\ ORDERS[i].order_id = order_id
                    /\ \A j \in 1..(i - 1) : ORDERS[j].order_id # order_id]
    ELSE [error |-> <<"O", "r", "d", "e", "r", " ">> \o order_id
                    \o <<" ", "n", "o", "t", " ", "f", "o", "u", "n", "d">>]

\* variant of ingest: the id is extracted from the text whenever the text has one
ingest_AlwaysExtract(s) ==
    LET ticket_text == s.messages[Len(s.messages)].content
        order_id    == DictGet(s, "order_id", None)
        m           == ReSearchOrderId(ticket_text)
    IN  [ticket_text |-> ticket_text,
         order_id    |-> IF m # None THEN Upper(m) ELSE order_id]

ingest(s) ==
    LET ticket_text == s.messages[Len(s.messages)].content
        order_id    == DictGet(s, "order_id", None)
        m           == ReSearchOrderId(ticket_text)
    IN  [ticket_text |-> ticket_text,
         order_id    |-> IF Truthy(order_id) THEN order_id
                         ELSE IF m # None THEN Upper(m)
                         ELSE order_id]

\* variant of classify_issue: the loop does not stop at the first matching rule,
\* so the last matching rule decides
classify_issue_LastRule(s) ==
    LET text    == Lower(s.ticket_text)
        matches == {i \in 1..Len(ISSUES) : Contains(ISSUES[i].keyword, text)}
        first   == CHOOSE i \in matches : \A j \in matches : j <= i
        issue_type == IF matches # {} THEN ISSUES[first].issue_type ELSE "unknown"
        evidence ==
            IF matches # {}
            THEN <<"M", "a", "t", "c", "h", "e", "d", " ", "k", "e", "y", "w", "o",
                   "r", "d", " ", "'">> \o ISSUES[first].keyword
                 \o <<"'", " ", "i", "n", " ", "t", "i", "c", "k", "e", "t", " ", "t",
                      "e", "x", "t">>
            ELSE <<"N", "o", " ", "m", "a", "t", "c", "h", "i", "n", "g", " ", "k", "e",
                   "y", "w", "o", "r", "d", "s", " ", "f", "o", "u", "n", "d", " ", "i",
                   "n", " ", "t", "i", "c", "k", "e", "t", " ", "t", "e", "x", "t">>
        order_id == DictGet(s, "order_id", None)
    IN  IF Truthy(order_id)
        THEN [issue_type |-> issue_type,
              evidence   |-> evidence,
              messages   |-> << AIMessage(
                  <<"Classified as ", issue_type, ". Looking up order ", order_id, "...">>,
                  << [id   |-> "fetch_order_call",
                      name |-> "fetch_order_tool",
                      args |-> [order_id |-> order_id]] >>) >>]
        ELSE [issue_type |-> issue_type,
              evidence   |-> evidence,
              messages   |-> << AIMessage(
                  <<"Classified as ", issue_type, ". No order ID found to look up.">>,
                  <<>>) >>]

\* variant of classify_issue: the lowercased text is written back to the state
classify_issue_StoresLower(s) ==
    LET text    == Lower(s.ticket_text)
        matches == {i \in 1..Len(ISSUES) : Contains(ISSUES[i].keyword, text)}
        first   == CHOOSE i \in matches : \A j \in matches : i <= j
        issue_type == IF matches # {} THEN ISSUES[first].issue_type ELSE "unknown"
        evidence ==
            IF matches # {}
            THEN <<"M", "a", "t", "c", "h", "e", "d", " ", "k", "e", "y", "w", "o",
                   "r", "d", " ", "'">> \o ISSUES[first].keyword
                 \o <<"'", " ", "i", "n", " ", "t", "i", "c", "k", "e", "t", " ", "t",
                      "e", "x", "t">>
            ELSE <<"N", "o", " ", "m", "a", "t", "c", "h", "i", "n", "g", " ", "k", "e",
                   "y", "w", "o", "r", "d", "s", " ", "f", "o", "u", "n", "d", " ", "i",
                   "n", " ", "t", "i", "c", "k", "e", "t", " ", "t", "e", "x", "t">>
        order_id == DictGet(s, "order_id", None)
    IN  IF Truthy(order_id)
        THEN [ticket_text |-> text,
              issue_type |-> issue_type,
              evidence   |-> evidence,
              messages   |-> << AIMessage(
                  <<"Classified as ", issue_type, ". Looking up order ", order_id, "...">>,
                  << [id   |-> "fetch_order_call",
                      name |-> "fetch_order_tool",
                      args |-> [order_id |-> order_id]] >>) >>]
        ELSE [ticket_text |-> text,
              issue_type |-> issue_type,
              evidence   |-> evidence,
              messages   |-> << AIMessage(
                  <<"Classified as ", issue_type, ". No order ID found to look up.">>,
                  <<>>) >>]

classify_issue(s) ==
    LET text    == Lower(s.ticket_text)
        matches == {i \in 1..Len(ISSUES) : Contains(ISSUES[i].keyword, text)}
        first   == CHOOSE i \in matches : \A j \in matches : i <= j
        issue_type == IF matches # {} THEN ISSUES[first].issue_type ELSE "unknown"
        evidence ==
            IF matches # {}
            THEN <<"M", "a", "t", "c", "h", "e", "d", " ", "k", "e", "y", "w", "o",
                   "r", "d", " ", "'">> \o ISSUES[first].keyword
                 \o <<"'", " ", "i", "n", " ", "t", "i", "c", "k", "e", "t", " ", "t",
                      "e", "x", "t">>
            ELSE <<"N", "o", " ", "m", "a", "t", "c", "h", "i", "n", "g", " ", "k", "e",
                   "y", "w", "o", "r", "d", "s", " ", "f", "o", "u", "n", "d", " ", "i",
                   "n", " ", "t", "i", "c", "k", "e", "t", " ", "t", "e", "x", "t">>
        order_id == DictGet(s, "order_id", None)
    IN  IF Truthy(order_id)
        THEN [issue_type |-> issue_type,
              evidence   |-> evidence,
              messages   |-> << AIMessage(
                  <<"Classified as ", issue_type, ". Looking up order ", order_id, "...">>,
                  << [id   |-> "fetch_order_call",
                      name |-> "fetch_order_tool",
                      args |-> [order_id |-> order_id]] >>) >>]
        ELSE [issue_type |-> issue_type,
              evidence   |-> evidence,
              messages   |-> << AIMessage(
                  <<"Classified as ", issue_type, ". No order ID found to look up.">>,
                  <<>>) >>]

\* variant of fetch_order: the id looked up is taken from the ticket text when
\* the text names one, not from the tool call
fetch_order_FromText(s) ==
    LET last  == s.messages[Len(s.messages)]
        calls == IF last.type = "ai" THEN last.tool_calls ELSE <<>>
        m     == ReSearchOrderId(s.ticket_text)
    IN  [messages |->
            [i \in 1..Len(calls) |->
                ToolMessage(json_dumps(fetch_order_tool(
                                IF m # None THEN Upper(m) ELSE calls[i].args.order_id)),
                            calls[i].name, calls[i].id)]]

\* ToolNode([fetch_order_tool]): runs the tool calls of the last message and returns
\* one ToolMessage per call, its content the JSON text of the tool's output
fetch_order(s) ==
    LET last  == s.messages[Len(s.messages)]
        calls == IF last.type = "ai" THEN last.tool_calls ELSE <<>>
    IN  [messages |->
            [i \in 1..Len(calls) |->
                ToolMessage(json_dumps(fetch_order_tool(calls[i].args.order_id)),
                            calls[i].name, calls[i].id)]]

\* the dict read from the last ToolMessage of msgs, {} when there is none
LastToolOrder(msgs) ==
    LET tools == {i \in 1..Len(msgs) : msgs[i].type = "tool"}
    IN  IF tools = {} THEN EmptyDict
        ELSE json_loads(msgs[CHOOSE i \in tools : \A j \in tools : j <= i].content)

DefaultTemplate ==
    <<"H", "i", " ", "{", "{", "c", "u", "s", "t", "o", "m", "e", "r", "_", "n", "a",
      "m", "e", "}", "}", ",", " ", "w", "e", " ", "a", "r", "e", " ", "r", "e", "v",
      "i", "e", "w", "i", "n", "g", " ", "o", "r", "d", "e", "r", " ", "{", "{", "o",
      "r", "d", "e", "r", "_", "i", "d", "}", "}", ".">>

CustomerNamePlaceholder ==
    <<"{", "{", "c", "u", "s", "t", "o", "m", "e", "r", "_", "n", "a", "m", "e", "}", "}">>

OrderIdPlaceholder == <<"{", "{", "o", "r", "d", "e", "r", "_", "i", "d", "}", "}">>

\* variant of draft_reply: a failed lookup escalates whatever the issue type
draft_reply_EscalateOnError(s) ==
    LET issue_type == DictGet(s, "issue_type", "unknown")
        order      == LastToolOrder(s.messages)
        hits       == {i \in 1..Len(REPLIES) : REPLIES[i].issue_type = issue_type}
        template   == IF hits # {}
                      THEN REPLIES[CHOOSE i \in hits : \A j \in hits : i <= j].template
                      ELSE DefaultTemplate
        state_id   == DictGet(s, "order_id", None)
        reply      == Replace(
                          Replace(template, CustomerNamePlaceholder,
                                  DictGet(order, "customer_name",
                                          <<"C", "u", "s", "t", "o", "m", "e", "r">>)),
                          OrderIdPlaceholder,
                          DictGet(order, "order_id",
                                  IF Truthy(state_id) THEN state_id ELSE <<>>))
        recommendation == IF "error" \in DOMAIN order THEN RECOMMENDATIONS["unknown"]
                          ELSE DictGet(RECOMMENDATIONS, issue_type,
                                       RECOMMENDATIONS["unknown"])
    IN  [recommendation |-> recommendation,
         messages       |-> << AIMessage(reply, <<>>) >>]

\* variant of draft_reply: an order id that was not found is cleared
draft_reply_ClearsIdOnError(s) ==
    LET issue_type == DictGet(s, "issue_type", "unknown")
        order      == LastToolOrder(s.messages)
        hits       == {i \in 1..Len(REPLIES) : REPLIES[i].issue_type = issue_type}
        template   == IF hits # {}
                      THEN REPLIES[CHOOSE i \in hits : \A j \in hits : i <= j].template
                      ELSE DefaultTemplate
        state_id   == DictGet(s, "order_id", None)
        reply      == Replace(
                          Replace(template, CustomerNamePlaceholder,
                                  DictGet(order, "customer_name",
                                          <<"C", "u", "s", "t", "o", "m", "e", "r">>)),
                          OrderIdPlaceholder,
                          DictGet(order, "order_id",
                                  IF Truthy(state_id) THEN state_id ELSE <<>>))
        recommendation == DictGet(RECOMMENDATIONS, issue_type, RECOMMENDATIONS["unknown"])
    IN  IF "error" \in DOMAIN order
        THEN [recommendation |-> recommendation,
              order_id       |-> None,
              messages       |-> << AIMessage(reply, <<>>) >>]
        ELSE [recommendation |-> recommendation,
              messages       |-> << AIMessage(reply, <<>>) >>]

draft_reply(s) ==
    LET issue_type == DictGet(s, "issue_type", "unknown")
        order      == LastToolOrder(s.messages)
        hits       == {i \in 1..Len(REPLIES) : REPLIES[i].issue_type = issue_type}
        template   == IF hits # {}
                      THEN REPLIES[CHOOSE i \in hits : \A j \in hits : i <= j].template
                      ELSE DefaultTemplate
        state_id   == DictGet(s, "order_id", None)
        reply      == Replace(
                          Replace(template, CustomerNamePlaceholder,
                                  DictGet(order, "customer_name",
                                          <<"C", "u", "s", "t", "o", "m", "e", "r">>)),
                          OrderIdPlaceholder,
                          DictGet(order, "order_id",
                                  IF Truthy(state_id) THEN state_id ELSE <<>>))
        recommendation == DictGet(RECOMMENDATIONS, issue_type, RECOMMENDATIONS["unknown"])
    IN  [recommendation |-> recommendation,
         messages       |-> << AIMessage(reply, <<>>) >>]

\* variant of route_after_classify: tests the presence of the key, not its value
route_after_classify_KeyPresent(s) ==
    IF "order_id" \in DOMAIN s THEN "fetch_order" ELSE "draft_reply"

\* variant of route_after_classify: without an order id the graph ends at once
route_after_classify_End(s) ==
    IF Truthy(DictGet(s, "order_id", None)) THEN "fetch_order" ELSE "END"

\* variant of route_after_classify: without an order id the graph starts over
route_after_classify_Retry(s) ==
    IF Truthy(DictGet(s, "order_id", None)) THEN "fetch_order" ELSE "ingest"

route_after_classify(s) ==
    IF Truthy(DictGet(s, "order_id", None)) THEN "fetch_order" ELSE "draft_reply"

\* the graph merges a node's update into the state: messages are appended
\* (add_messages), every other key is overwritten
ApplyUpdate(s, upd) ==
    [k \in DOMAIN s \cup DOMAIN upd |->
        IF k = "messages"
        THEN DictGet(s, "messages", <<>>) \o DictGet(upd, "messages", <<>>)
        ELSE IF k \in DOMAIN upd THEN upd[k] ELSE s[k]]

\* variant of initial_state: a state dict shared between calls keeps the order_id
\* of the previous call when none is supplied
initial_state_Shared(ticket_text, order_id) ==
    IF Truthy(order_id)
    THEN [messages |-> << HumanMessage(ticket_text) >>, order_id |-> order_id]
    ELSE [messages |-> << HumanMessage(ticket_text) >>,
          order_id |-> DictGet(state, "order_id", None)]

\* run_triage: the initial state handed to triage_graph.invoke
initial_state(ticket_text, order_id) ==
    IF Truthy(order_id)
    THEN [messages |-> << HumanMessage(ticket_text) >>, order_id |-> order_id]
    ELSE [messages |-> << HumanMessage(ticket_text) >>]

\* run_triage: the dict returned for the final graph state
Result(final) ==
    LET order == LastToolOrder(final.messages)
    IN  [order_id       |-> DictGet(final, "order_id", None),
         issue_type     |-> DictGet(final, "issue_type", "None"),
         evidence       |-> DictGet(final, "evidence", None),
         recommendation |-> DictGet(final, "recommendation", "None"),
         order          |-> IF order # EmptyDict /\ "error" \notin DOMAIN order
                            THEN order ELSE Null,
         reply_text     |-> final.messages[Len(final.messages)].content,
         error          |-> IF "error" \in DOMAIN order THEN order["error"] ELSE None]

\* ---------------------------------------------------------------------------
\* Inputs
\* ---------------------------------------------------------------------------
MaxFrags == 2

MaxSmallFrags == 2

\* pieces of ticket text: order ids in mixed case (in the store and not), a
\* truncated id, and keywords in mixed case ("Broken" holds two keywords)
Fragments ==
    { <<"O", "r", "d", "1", "0", "0", "2">>,
      <<"o", "r", "d", "9", "9", "9", "9">>,
      <<"O", "R", "D", "1", "0">>,
      <<"B", "r", "o", "k", "e", "n">>,
      <<"L", "A", "T", "E">>,
      <<"r", "e", "f", "u", "n", "d">> }

SmallFragments ==
    { <<"O", "r", "d", "1", "0", "0", "2">>,
      <<"o", "r", "d", "9", "9", "9", "9">>,
      <<"B", "r", "o", "k", "e", "n">> }

\* the texts made of at most n pieces of F
RECURSIVE TextsUpTo(_, _)
TextsUpTo(F, n) ==
    IF n = 0 THEN {<<>>}
    ELSE LET T == TextsUpTo(F, n - 1) IN T \cup {t \o f : t \in T, f \in F}

Texts == TextsUpTo(Fragments, MaxFrags)

SmallTexts == TextsUpTo(SmallFragments, MaxSmallFrags)

\* arguments of the invocations that run at the same time
MaxConcFrags == 1

ConcTexts == TextsUpTo(SmallFragments, MaxConcFrags)

ConcOrderIdArgs ==
    { None,
      <<"O", "R", "D", "1", "0", "0", "3">>,
      <<"O", "R", "D", "9", "9", "9", "9">> }

\* order_id arguments: omitted, empty, in the store, not in the store, and an id
\* of the store in lower case
OrderIdArgs ==
    { None, <<>>,
      <<"O", "R", "D", "1", "0", "0", "2">>,
      <<"O", "R", "D", "1", "0", "0", "3">>,
      <<"O", "R", "D", "9", "9", "9", "9">>,
      <<"o", "r", "d", "1", "0", "0", "2">> }

SmallOrderIdArgs ==
    { None, <<>>,
      <<"O", "R", "D", "1", "0", "0", "2">>,
      <<"O", "R", "D", "9", "9", "9", "9">> }

\* ---------------------------------------------------------------------------
\* State machine
\* ---------------------------------------------------------------------------
\* no second invocation has been made
IdlePeer ==
    [pc |-> "idle", args |-> Null, state |-> EmptyDict, result |-> Null,
     overlapped |-> FALSE]

Init ==
    /\ ORDERS = MockOrders
    /\ ISSUES \in {MockIssuesA, MockIssuesB}
    /\ REPLIES = MockReplies
    /\ RECOMMENDATIONS = RecommendationMap
    /\ pc = "idle"
    /\ args = Null
    /\ state = EmptyDict
    /\ trace = <<>>
    /\ result = Null
    /\ memo = Null
    /\ peer = IdlePeer

\* run_triage is called: the initial state is built and the graph is entered
RunTriage(T, O) ==
    /\ pc = "idle"
    /\ \E ticket_text \in T, order_id \in O :
          /\ args' = [ticket_text |-> ticket_text, order_id |-> order_id]
          /\ state' = initial_state(ticket_text, order_id)
    /\ pc' = "ingest"
    /\ trace' = <<>>
    /\ result' = Null
    /\ memo' = IF memo = Null THEN memo
               ELSE IF args' # memo.args THEN [memo EXCEPT !.later = "other"]
               ELSE IF memo.later = "none" THEN [memo EXCEPT !.later = "same"]
               ELSE memo
    /\ UNCHANGED <<store, peer>>

IngestStep ==
    /\ pc = "ingest"
    /\ state' = ApplyUpdate(state, ingest(state))
    /\ pc' = "classify_issue"
    /\ trace' = Append(trace, "ingest")
    /\ UNCHANGED <<store, args, result, memo, peer>>

ClassifyStep ==
    /\ pc = "classify_issue"
    /\ state' = ApplyUpdate(state, classify_issue(state))
    /\ pc' = route_after_classify(state')
    /\ trace' = Append(trace, "classify_issue")
    /\ UNCHANGED <<store, args, result, memo, peer>>

\* variant of FetchStep: the order looked up is taken out of ORDERS
FetchStep_Consumes ==
    /\ pc = "fetch_order"
    /\ state' = ApplyUpdate(state, fetch_order(state))
    /\ ORDERS' = SelectSeq(ORDERS, LAMBDA o : o.order_id # state.order_id)
    /\ pc' = "draft_reply"
    /\ trace' = Append(trace, "fetch_order")
    /\ UNCHANGED <<ISSUES, REPLIES, RECOMMENDATIONS, args, result, memo, peer>>

FetchStep ==
    /\ pc = "fetch_order"
    /\ state' = ApplyUpdate(state, fetch_order(state))
    /\ pc' = "draft_reply"
    /\ trace' = Append(trace, "fetch_order")
    /\ UNCHANGED <<store, args, result, memo, peer>>

DraftStep ==
    /\ pc = "draft_reply"
    /\ state' = ApplyUpdate(state, draft_reply(state))
    /\ pc' = "END"
    /\ trace' = Append(trace, "draft_reply")
    /\ UNCHANGED <<store, args, result, memo, peer>>

\* the graph has ended: run_triage assembles and returns the Result
ReturnResult ==
    /\ pc = "END"
    /\ result' = Result(state)
    /\ pc' = "idle"
    /\ UNCHANGED <<store, args, state, trace, memo, peer>>

\* bookkeeping: keep the arguments and Result of one completed call for comparison;
\* memo.later tells which calls were made since: "none", only calls with the
\* "same" arguments, or at least one call with "other" arguments (see RunTriage)
Remember ==
    /\ pc = "idle"
    /\ result # Null
    /\ memo = Null
    /\ memo' = [args |-> args, result |-> result, later |-> "none"]
    /\ UNCHANGED <<store, pc, args, state, trace, result, peer>>

Pipeline == IngestStep \/ ClassifyStep \/ FetchStep \/ DraftStep \/ ReturnResult

Next == RunTriage(Texts, OrderIdArgs) \/ Pipeline

Spec == Init /\ [][Next]_vars

\* the graph runner moves on: a node hands over to its successor, the last node
\* to END, and at END run_triage returns. Under Next these are exactly the
\* Pipeline steps, and one of them is possible whenever a call is in progress.
Advance ==
    /\ pc # "idle"
    /\ pc' \in {"classify_issue", "fetch_order", "draft_reply", "END", "idle"}
    /\ pc' # pc

\* every started invocation keeps running: triage_graph.invoke is synchronous
FairSpec == Spec /\ WF_pc(Advance)

\* A second caller (another Streamlit session thread) calls run_triage while the
\* first invocation may be in progress.  The call builds its own initial_state
\* and triage_graph.invoke threads that state through the same nodes; the
\* module globals are the only objects both invocations reach.  peer.overlapped
\* records that a step of this invocation was taken while the first invocation
\* was in progress.
PeerRunTriage(T, O) ==
    /\ peer.pc = "idle"
    /\ \E ticket_text \in T, order_id \in O :
          peer' = [pc         |-> "ingest",
                   args       |-> [ticket_text |-> ticket_text, order_id |-> order_id],
                   state      |-> initial_state(ticket_text, order_id),
                   result     |-> Null,
                   overlapped |-> pc # "idle"]
    /\ UNCHANGED <<store, pc, args, state, trace, result, memo>>

\* variant of PeerIngestStep: the node reads the order_id of the state of the
\* other invocation when that state has one
PeerIngestStep_SharedState ==
    /\ peer.pc = "ingest"
    /\ LET other == DictGet(state, "order_id", None)
           seen  == IF Truthy(other)
                    THEN [k \in DOMAIN peer.state \cup {"order_id"} |->
                             IF k = "order_id" THEN other ELSE peer.state[k]]
                    ELSE peer.state
       IN  peer' = [peer EXCEPT !.state = ApplyUpdate(peer.state, ingest(seen)),
                                !.pc = "classify_issue",
                                !.overlapped = @ \/ pc # "idle"]
    /\ UNCHANGED <<store, pc, args, state, trace, result, memo>>

PeerIngestStep ==
    /\ peer.pc = "ingest"
    /\ peer' = [peer EXCEPT !.state = ApplyUpdate(peer.state, ingest(peer.state)),
                            !.pc = "classify_issue",
                            !.overlapped = @ \/ pc # "idle"]
    /\ UNCHANGED <<store, pc, args, state, trace, result, memo>>

PeerClassifyStep ==
    /\ peer.pc = "classify_issue"
    /\ LET s == ApplyUpdate(peer.state, classify_issue(peer.state))
       IN  peer' = [peer EXCEPT !.state = s,
                                !.pc = route_after_classify(s),
                                !.overlapped = @ \/ pc # "idle"]
    /\ UNCHANGED <<store, pc, args, state, trace, result, memo>>

PeerFetchStep ==
    /\ peer.pc = "fetch_order"
    /\ peer' = [peer EXCEPT !.state = ApplyUpdate(peer.state, fetch_order(peer.state)),
                            !.pc = "draft_reply",
                            !.overlapped = @ \/ pc # "idle"]
    /\ UNCHANGED <<store, pc, args, state, trace, result, memo>>

PeerDraftStep ==
    /\ peer.pc = "draft_reply"
    /\ peer' = [peer EXCEPT !.state = ApplyUpdate(peer.state, draft_reply(peer.state)),
                            !.pc = "END",
                            !.overlapped = @ \/ pc # "idle"]
    /\ UNCHANGED <<store, pc, args, state, trace, result, memo>>

PeerReturnResult ==
    /\ peer.pc = "END"
    /\ peer' = [peer EXCEPT !.result = Result(peer.state),
                            !.pc = "idle",
                            !.overlapped = @ \/ pc # "idle"]
    /\ UNCHANGED <<store, pc, args, state, trace, result, memo>>

PeerPipeline ==
    PeerIngestStep \/ PeerClassifyStep \/ PeerFetchStep \/ PeerDraftStep \/ PeerReturnResult

NextConc ==
    \/ RunTriage(ConcTexts, ConcOrderIdArgs)
    \/ Pipeline
    \/ PeerRunTriage(ConcTexts, ConcOrderIdArgs)
    \/ PeerPipeline

SpecConc == Init /\ [][NextConc]_vars

\* triage_graph.invoke run on its own: the nodes applied one after the other to
\* the initial state, and the Result run_triage returns for the final state
RunAlone(ticket_text, order_id) ==
    LET s0 == initial_state(ticket_text, order_id)
        s1 == ApplyUpdate(s0, ingest(s0))
        s2 == ApplyUpdate(s1, classify_issue(s1))
        s3 == IF route_after_classify(s2) = "fetch_order"
              THEN ApplyUpdate(s2, fetch_order(s2))
              ELSE s2
        s4 == ApplyUpdate(s3, draft_reply(s3))
    IN  Result(s4)

NextIdem == RunTriage(SmallTexts, SmallOrderIdArgs) \/ Pipeline \/ Remember

SpecIdem == Init /\ [][NextIdem]_vars

\* ---------------------------------------------------------------------------
\* Vocabulary of the properties, stated over the inputs and the store
\* ---------------------------------------------------------------------------
\* a run_triage call has returned and nothing has been called since
Done == pc = "idle" /\ result # Null

\* the current invocation has executed node n
Visited(n) == \E i \in 1..Len(trace) : trace[i] = n

\* some order of the store has exactly this id
InStore(id) == \E i \in 1..Len(ORDERS) : ORDERS[i].order_id = id

StoredOrder(id) == ORDERS[CHOOSE i \in 1..Len(ORDERS) : ORDERS[i].order_id = id]

\* t has, at position i, the letters o, r, d in either case and then four digits
HasOrderIdAt(t, i) ==
    /\ i >= 1
    /\ i + 6 <= Len(t)
    /\ <<LowerChar(t[i]), LowerChar(t[i + 1]), LowerChar(t[i + 2])>> = <<"o", "r", "d">>
    /\ {t[i + 3], t[i + 4], t[i + 5], t[i + 6]} \subseteq Digits

HasOrderId(t) == \E i \in 1..Len(t) : HasOrderIdAt(t, i)

\* kw occurs in t at position i when the case of t is ignored
KeywordAt(kw, t, i) ==
    /\ i + Len(kw) - 1 <= Len(t)
    /\ \A j \in 1..Len(kw) : LowerChar(t[i + j - 1]) = kw[j]

KeywordIn(kw, t) == \E i \in 1..Len(t) : KeywordAt(kw, t, i)

\* the issue type of the earliest rule whose keyword occurs in t, else "unknown"
FirstMatchIssueType(t) ==
    IF \E r \in 1..Len(ISSUES) : KeywordIn(ISSUES[r].keyword, t)
    THEN ISSUES[CHOOSE r \in 1..Len(ISSUES) :
                    /\ KeywordIn(ISSUES[r].keyword, t)
                    /\ \A q \in 1..(r - 1) : ~KeywordIn(ISSUES[q].keyword, t)].issue_type
    ELSE "unknown"

NotFoundMessage(id) ==
    <<"O", "r", "d", "e", "r", " ">> \o id
        \o <<" ", "n", "o", "t", " ", "f", "o", "u", "n", "d">>

\* ---------------------------------------------------------------------------
\* Properties
\* ---------------------------------------------------------------------------
\* C1: when an order_id is present after ingest (supplied or extracted) and no
\* order of the store has exactly that id, the Result has order = null and
\* error = "Order <id> not found", and issue_type and recommendation are still
\* the ones computed from the text.
C1_OrderNotFound ==
    (Done /\ Truthy(state.order_id) /\ ~InStore(state.order_id)) =>
        /\ result.order = Null
        /\ result.error = NotFoundMessage(state.order_id)
        /\ result.error # <<>>
        /\ result.issue_type = FirstMatchIssueType(args.ticket_text)
        /\ result.recommendation =
              DictGet(RecommendationMap, result.issue_type, RecommendationMap["unknown"])

\* an id extracted from the text is not in the store, and the text has a keyword
C1_Witness ==
    /\ Done
    /\ args.order_id = None
    /\ Truthy(state.order_id)
    /\ ~InStore(state.order_id)
    /\ result.error = NotFoundMessage(<<"O", "R", "D", "9", "9", "9", "9">>)
    /\ result.issue_type = "damaged_item"

\* C2: with no order_id supplied and no ORD+four-digits match (in any case) in
\* the text, the Result has order_id = null, order = null and error = null.
C2_NoOrderId ==
    (Done /\ ~Truthy(args.order_id) /\ ~HasOrderId(args.ticket_text)) =>
        /\ result.order_id = None
        /\ result.order = Null
        /\ result.error = None

\* the text holds a truncated id only
C2_Witness ==
    /\ Done
    /\ args.order_id = None
    /\ args.ticket_text = <<"O", "R", "D", "1", "0", "L", "A", "T", "E">>
    /\ result.order_id = None
    /\ result.issue_type = "late_delivery"

\* C3: a supplied order_id that exists in the store yields Result.order equal to
\* the stored record (order_id, customer_name, status, items) and error = null.
C3_OrderFound ==
    (Done /\ Truthy(args.order_id) /\ InStore(args.order_id)) =>
        /\ result.order = StoredOrder(args.order_id)
        /\ result.order.order_id = args.order_id
        /\ result.error = None

\* a stored id is supplied together with a text that names another id
C3_Witness ==
    /\ Done
    /\ args.order_id = <<"O", "R", "D", "1", "0", "0", "2">>
    /\ HasOrderIdAt(args.ticket_text, 1)
    /\ args.ticket_text[4] = "9"
    /\ result.order # Null
    /\ Len(result.order.items) = 2

\* C4: in every Result, order is non-null only after a lookup that succeeded,
\* error is non-null only after a lookup that failed, the two are never both
\* non-null, and the no-order-id outcome (order_id null: error null) differs from
\* the order-not-found outcome (order_id non-null: error non-null).
C4_OrderErrorExclusive ==
    Done =>
        /\ result.order # Null =>
              Visited("fetch_order") /\ InStore(state.order_id)
        /\ result.error # None =>
              Visited("fetch_order") /\ ~InStore(state.order_id)
        /\ ~(result.order # Null /\ result.error # None)
        /\ ~Truthy(result.order_id) => result.error = None
        /\ (Truthy(result.order_id) /\ ~InStore(result.order_id)) =>
              Truthy(result.error)

\* a failed lookup has been reported
C4_Witness ==
    /\ Done
    /\ Visited("fetch_order")
    /\ result.error # None
    /\ result.order = Null
    /\ Truthy(result.order_id)

\* C5: after Classify the pipeline enters Fetch iff order_id is present in the
\* state; without an order_id it goes straight to Compose and the invocation
\* performs no order lookup at any point.
C5_FetchIffOrderId ==
    (Visited("classify_issue") /\ (pc # "idle" \/ result # Null)) =>
        LET present == Truthy(state.order_id)
            lookups == {i \in 1..Len(state.messages) : state.messages[i].type = "tool"}
        IN  /\ (pc = "fetch_order" \/ Visited("fetch_order")) <=> present
            /\ trace[Len(trace)] = "classify_issue" =>
                  pc = (IF present THEN "fetch_order" ELSE "draft_reply")
            /\ ~present => lookups = {}

\* an invocation without an order id has completed without visiting Fetch
C5_Witness ==
    /\ Done
    /\ ~Truthy(state.order_id)
    /\ trace = <<"ingest", "classify_issue", "draft_reply">>

\* C6: every invocation reaches the terminal stage and returns a Result, and
\* Compose has run before it does: reply_text and recommendation are set in
\* every Result, also when the lookup failed or was skipped.
C6_AlwaysCompletes ==
    /\ (pc # "idle") ~> Done
    /\ [](Done =>
            /\ Visited("draft_reply")
            /\ trace[Len(trace)] = "draft_reply"
            /\ result.reply_text = state.messages[Len(state.messages)].content
            /\ state.messages[Len(state.messages)].type = "ai"
            /\ state.messages[Len(state.messages)].tool_calls = <<>>
            /\ result.recommendation \in
                  {RecommendationMap[t] : t \in DOMAIN RecommendationMap}
            /\ result.recommendation = state.recommendation)

\* a Result with a reply was returned although the lookup failed
C6_Witness ==
    /\ Done
    /\ result.error # None
    /\ Len(result.reply_text) > 0
    /\ result.recommendation = "Escalate to human agent for review"

\* C7: a supplied order_id is left unchanged by ingest and is not re-derived from
\* the text: it is the id of the lookup and of the Result, also when the text
\* names another ORD#### id.
C7_SuppliedIdKept ==
    (args # Null /\ Truthy(args.order_id)) =>
        /\ state.order_id = args.order_id
        /\ \A i \in 1..Len(state.messages) :
              /\ state.messages[i].type = "ai" =>
                    \A c \in 1..Len(state.messages[i].tool_calls) :
                        state.messages[i].tool_calls[c].args.order_id = args.order_id
              /\ state.messages[i].type = "tool" =>
                    state.messages[i].content =
                        json_dumps(IF InStore(args.order_id)
                                   THEN StoredOrder(args.order_id)
                                   ELSE [error |-> NotFoundMessage(args.order_id)])
        /\ Done => result.order_id = args.order_id

\* the supplied id was looked up although the text names a different id
C7_Witness ==
    /\ Done
    /\ args.order_id = <<"O", "R", "D", "1", "0", "0", "2">>
    /\ HasOrderIdAt(args.ticket_text, 1)
    /\ args.ticket_text[4] = "9"
    /\ Visited("fetch_order")
    /\ result.order_id = <<"O", "R", "D", "1", "0", "0", "2">>
    /\ result.order # Null

\* C8: with no order_id supplied, a text that contains ORD+four digits (in any
\* case) yields as order_id the leftmost such substring in upper case.
C8_FirstMatchUppercased ==
    (Visited("ingest") /\ ~Truthy(args.order_id) /\ HasOrderId(args.ticket_text)) =>
        \E i \in 1..Len(args.ticket_text) :
            /\ HasOrderIdAt(args.ticket_text, i)
            /\ \A j \in 1..(i - 1) : ~HasOrderIdAt(args.ticket_text, j)
            /\ state.order_id = <<"O", "R", "D">> \o SubSeq(args.ticket_text, i + 3, i + 6)
            /\ Done => result.order_id = state.order_id

\* the text names two different ids, the first of them not in upper case
C8_Witness ==
    /\ Done
    /\ args.order_id = None
    /\ args.ticket_text = <<"o", "r", "d", "9", "9", "9", "9",
                            "O", "r", "d", "1", "0", "0", "2">>
    /\ result.order_id = <<"O", "R", "D", "9", "9", "9", "9">>

\* C9: issue_type is that of the earliest rule whose keyword is a substring of
\* the lowercased text, wherever the keywords occur in the text and also when
\* one matching keyword is a substring of another; "unknown" if none occurs.
C9_FirstRuleWins ==
    Visited("classify_issue") =>
        /\ state.issue_type = FirstMatchIssueType(args.ticket_text)
        /\ (\A r \in 1..Len(ISSUES) : ~KeywordIn(ISSUES[r].keyword, args.ticket_text))
              <=> state.issue_type = "unknown"
        /\ Done => result.issue_type = state.issue_type

\* the winning rule's keyword occurs in the text only after the keyword of a
\* later rule, and is a substring of another matching rule's keyword
C9_Witness ==
    /\ Done
    /\ \E r, q \in 1..Len(ISSUES) :
          /\ r < q
          /\ ISSUES[r].issue_type = result.issue_type
          /\ Len(ISSUES[r].keyword) < Len(ISSUES[q].keyword)
          /\ \E i \in 1..Len(args.ticket_text) :
                /\ KeywordAt(ISSUES[r].keyword, args.ticket_text, i)
                /\ KeywordAt(ISSUES[q].keyword, args.ticket_text, i)
                /\ \E p \in 1..Len(ISSUES), j \in 1..(i - 1) :
                      r < p /\ KeywordAt(ISSUES[p].keyword, args.ticket_text, j)

\* C10: two run_triage calls with the same (ticket_text, order_id) return the
\* same Result, whatever calls were made before or between them.
C10_Idempotent ==
    (Done /\ memo # Null /\ memo.args = args) => result = memo.result

\* the remembered call was repeated after a call with other arguments
C10_Witness ==
    /\ Done
    /\ memo # Null
    /\ memo.args = args
    /\ memo.later = "other"
    /\ args.order_id = None
    /\ result.error # None

\* ---------------------------------------------------------------------------
\* Vocabulary of the reply properties
\* ---------------------------------------------------------------------------
\* the lookup of the current invocation found an order
Resolved == Visited("fetch_order") /\ InStore(state.order_id)

\* the template of issue type t: the first of REPLIES for t, else the default
TemplateFor(t) ==
    IF \E i \in 1..Len(REPLIES) : REPLIES[i].issue_type = t
    THEN REPLIES[CHOOSE i \in 1..Len(REPLIES) :
                     /\ REPLIES[i].issue_type = t
                     /\ \A j \in 1..(i - 1) : REPLIES[j].issue_type # t].template
    ELSE DefaultTemplate

\* ph stands in t at position i
PlaceholderAt(ph, t, i) ==
    /\ i + Len(ph) - 1 <= Len(t)
    /\ \A j \in 1..Len(ph) : t[i + j - 1] = ph[j]

\* t with every placeholder of subs (a set of <<placeholder, value>> pairs, no
\* placeholder a prefix of another) replaced by its value in one pass over t:
\* substituted values are not scanned again
RECURSIVE Substitute(_, _)
Substitute(t, subs) ==
    LET at == {i \in 1..Len(t) : \E p \in subs : PlaceholderAt(p[1], t, i)}
        i  == CHOOSE k \in at : \A j \in at : k <= j
        p  == CHOOSE q \in subs : PlaceholderAt(q[1], t, i)
    IN  IF at = {} THEN t
        ELSE SubSeq(t, 1, i - 1) \o p[2]
                 \o Substitute(SubSeq(t, i + Len(p[1]), Len(t)), subs)

\* what the reply is to show as customer name and as order id
ReplyCustomerName ==
    IF Resolved THEN StoredOrder(state.order_id).customer_name
    ELSE <<"C", "u", "s", "t", "o", "m", "e", "r">>

ReplyOrderId ==
    IF Resolved THEN StoredOrder(state.order_id).order_id
    ELSE IF Truthy(state.order_id) THEN state.order_id
    ELSE <<>>

\* C11: in the reply, {{customer_name}} is replaced by the resolved order's
\* customer name, or by "Customer" when no order was resolved, and {{order_id}}
\* by the resolved order's id, else by the supplied/extracted order_id, else by
\* the empty string.
C11_ReplySubstitution ==
    Done =>
        result.reply_text =
            Substitute(TemplateFor(result.issue_type),
                       { <<CustomerNamePlaceholder, ReplyCustomerName>>,
                         <<OrderIdPlaceholder, ReplyOrderId>> })

\* C12: the recommendation is a function of issue_type alone: the
\* Recommendation Map entry of issue_type, or the "unknown" entry when there is
\* none, whether the lookup succeeded, failed or was skipped.
C12_RecommendationByIssueType ==
    Done =>
        /\ result.issue_type = FirstMatchIssueType(args.ticket_text)
        /\ result.recommendation =
              IF result.issue_type \in DOMAIN RecommendationMap
              THEN RecommendationMap[result.issue_type]
              ELSE "Escalate to human agent for review"

\* an issue type without an entry was escalated although its order was found
C12_Witness ==
    /\ Done
    /\ result.issue_type = "order_inquiry"
    /\ result.issue_type \notin DOMAIN RecommendationMap
    /\ result.order # Null
    /\ result.recommendation = "Escalate to human agent for review"

\* C14: the two placeholders are substituted independently: the value put in
\* for {{customer_name}} is not itself subject to {{order_id}} substitution (and
\* vice versa), so the order of the two substitutions does not matter, and a
\* template with only one of the placeholders changes only where it stands.
C14_IndependentSubstitution ==
    Done =>
        LET t    == TemplateFor(result.issue_type)
            name == {<<CustomerNamePlaceholder, ReplyCustomerName>>}
            id   == {<<OrderIdPlaceholder, ReplyOrderId>>}
        IN  /\ result.reply_text = Substitute(Substitute(t, id), name)
            /\ (\A i \in 1..Len(t) : ~PlaceholderAt(OrderIdPlaceholder, t, i)) =>
                  result.reply_text = Substitute(t, name)
            /\ (\A i \in 1..Len(t) : ~PlaceholderAt(CustomerNamePlaceholder, t, i)) =>
                  result.reply_text = Substitute(t, id)


\* C13: the reference data (orders, issue rules, reply templates and the
\* recommendation mapping) is what the initial load produced, and no step of any
\* invocation, in any sequence of invocations, changes it
C13_StoreNeverChanges ==
    /\ [](/\ ORDERS = MockOrders
          /\ ISSUES \in {MockIssuesA, MockIssuesB}
          /\ REPLIES = MockReplies
          /\ RECOMMENDATIONS = RecommendationMap)
    /\ [][store' = store]_vars

\* an invocation has looked an order up in the store and has returned it
C13_Witness ==
    /\ Done
    /\ Visited("fetch_order")
    /\ result.order # Null
    /\ ORDERS = MockOrders

\* the two orders in which an invocation visits the stages
StagePaths ==
    { <<"ingest", "classify_issue", "fetch_order", "draft_reply">>,
      <<"ingest", "classify_issue", "draft_reply">> }

IsPrefix(p, q) == Len(p) <= Len(q) /\ \A i \in 1..Len(p) : p[i] = q[i]

\* C15: within one invocation the stages run in the fixed order Ingest,
\* Classify, then Fetch if an order id is present, then Compose; each stage
\* runs at most once, the stage about to run is the next one of that order,
\* and a finished invocation has run one of the two full orders
C15_FixedStageOrder ==
    /\ \E q \in StagePaths : IsPrefix(trace, q)
    /\ \A i, j \in 1..Len(trace) : trace[i] = trace[j] => i = j
    /\ pc = "ingest" => trace = <<>>
    /\ pc = "classify_issue" => trace = <<"ingest">>
    /\ pc = "fetch_order" =>
          /\ trace = <<"ingest", "classify_issue">>
          /\ Truthy(state.order_id)
    /\ pc = "draft_reply" /\ ~Visited("fetch_order") =>
          /\ trace = <<"ingest", "classify_issue">>
          /\ ~Truthy(state.order_id)
    /\ (pc = "END" \/ Done) => trace \in StagePaths
    /\ Done => (Visited("fetch_order") <=> Truthy(state.order_id))

\* an invocation has finished after running all four stages
C15_Witness ==
    /\ Done
    /\ trace = <<"ingest", "classify_issue", "fetch_order", "draft_reply">>

\* C16: within one invocation ticket_text, a determined order_id, issue_type
\* and evidence are not changed once they are set: ticket_text is set by
\* Ingest to the text supplied, order_id is not touched after Ingest,
\* issue_type and evidence are set by Classify and by no other stage
C16_WriteOnceFields ==
    [][pc # "idle" =>
          /\ "ticket_text" \in DOMAIN state => state'.ticket_text = state.ticket_text
          /\ pc = "ingest" => state'.ticket_text = args.ticket_text
          /\ Truthy(DictGet(state, "order_id", None)) => state'.order_id = state.order_id
          /\ pc # "ingest" => state'.order_id = state.order_id
          /\ "issue_type" \in DOMAIN state =>
                /\ state'.issue_type = state.issue_type
                /\ state'.evidence = state.evidence
          /\ pc # "classify_issue" =>
                /\ ("issue_type" \in DOMAIN state') = ("issue_type" \in DOMAIN state)
                /\ ("evidence" \in DOMAIN state') = ("evidence" \in DOMAIN state)
          /\ pc = "classify_issue" =>
                /\ "issue_type" \notin DOMAIN state
                /\ {"issue_type", "evidence"} \subseteq DOMAIN state'
    ]_vars

\* a finished invocation whose text has upper-case letters and whose order id
\* was supplied: the state still holds the text and the id as they were set
C16_Witness ==
    /\ Done
    /\ Visited("fetch_order")
    /\ state.ticket_text = args.ticket_text
    /\ state.ticket_text # Lower(state.ticket_text)
    /\ state.order_id = args.order_id
    /\ state.issue_type # "unknown"

\* the lookup of the current invocation has failed: the last lookup-result
\* message of the state carries the error marker
ErrorSet ==
    /\ pc # "idle"
    /\ "messages" \in DOMAIN state
    /\ "error" \in DOMAIN LastToolOrder(state.messages)

\* C17 as stated: once the error marker is set, no stage changes the state of
\* the invocation any further
C17_NoMutationAfterError == [][ErrorSet => state' = state]_vars

\* C17 amended: once the error marker is set, the only change of the state is
\* the one Compose makes, which adds the recommendation and appends the reply
\* message; every other field, the lookup-result message and the error marker
\* stay as they are, and after Compose the state does not change
C17_OnlyComposeAfterError ==
    [][ErrorSet =>
          \/ state' = state
          \/ /\ pc = "draft_reply"
             /\ pc' = "END"
             /\ "recommendation" \notin DOMAIN state
             /\ DOMAIN state' = DOMAIN state \cup {"recommendation"}
             /\ \A k \in DOMAIN state \ {"messages"} : state'[k] = state[k]
             /\ Len(state'.messages) = Len(state.messages) + 1
             /\ SubSeq(state'.messages, 1, Len(state.messages)) = state.messages
             /\ state'.messages[Len(state'.messages)].type = "ai"
             /\ state'.messages[Len(state'.messages)].tool_calls = <<>>
             /\ LastToolOrder(state'.messages) = LastToolOrder(state.messages)
    ]_vars

\* Compose has run after a failed lookup
C17_Witness ==
    /\ pc = "END"
    /\ ErrorSet
    /\ "recommendation" \in DOMAIN state
    /\ Truthy(state.order_id)
    /\ state.messages[Len(state.messages)].type = "ai"

\* positions of the lookup-result messages in a message list
ToolMessages(msgs) == {i \in 1..Len(msgs) : msgs[i].type = "tool"}

\* what a lookup of id in the store answers
LookupAnswer(id) ==
    IF InStore(id) THEN StoredOrder(id) ELSE [error |-> NotFoundMessage(id)]

\* C19: the message Classify appends carries a lookup request exactly when the
\* graph routes to Fetch; the request names the order id of the state; the
\* state holds at most one lookup-result message, present exactly when Fetch
\* has run, and it answers that request; Compose and run_triage read the order
\* or the error from that message
C19_LookupMessages ==
    (pc \in {"fetch_order", "draft_reply", "END"} \/ Done) =>
        LET msgs  == state.messages
            req   == msgs[2]
            tools == ToolMessages(msgs)
        IN  /\ req.type = "ai"
            /\ (req.tool_calls # <<>>) <=> (pc = "fetch_order" \/ Visited("fetch_order"))
            /\ Len(req.tool_calls) <= 1
            /\ \A c \in 1..Len(req.tool_calls) :
                  /\ req.tool_calls[c].name = "fetch_order_tool"
                  /\ req.tool_calls[c].args = [order_id |-> state.order_id]
            /\ \A i \in 1..Len(msgs) : i # 2 /\ msgs[i].type = "ai" => msgs[i].tool_calls = <<>>
            /\ Cardinality(tools) <= 1
            /\ (tools # {}) <=> Visited("fetch_order")
            /\ \A i \in tools :
                  /\ i = 3
                  /\ msgs[i].tool_call_id = req.tool_calls[1].id
                  /\ msgs[i].content = json_dumps(LookupAnswer(state.order_id))
            /\ Done /\ tools = {} =>
                  /\ result.order = Null
                  /\ result.error = None
                  /\ Contains(<<"C", "u", "s", "t", "o", "m", "e", "r">>, result.reply_text)
            /\ Done /\ tools # {} /\ InStore(state.order_id) =>
                  /\ result.order = json_loads(msgs[3].content)
                  /\ result.order = StoredOrder(state.order_id)
                  /\ result.error = None
                  /\ ~Contains(<<"C", "u", "s", "t", "o", "m", "e", "r">>, result.reply_text)
            /\ Done /\ tools # {} /\ ~InStore(state.order_id) =>
                  /\ result.order = Null
                  /\ result.error = json_loads(msgs[3].content).error
                  /\ Contains(<<"C", "u", "s", "t", "o", "m", "e", "r">>, result.reply_text)

\* a finished invocation whose supplied order id differs from the one its text
\* names: the single lookup-result message answers the supplied id
C19_Witness ==
    /\ Done
    /\ Cardinality(ToolMessages(state.messages)) = 1
    /\ HasOrderId(args.ticket_text)
    /\ Upper(ReSearchOrderId(args.ticket_text)) # state.order_id
    /\ state.messages[2].tool_calls[1].args.order_id = args.order_id
    /\ result.order = StoredOrder(args.order_id)

\* C18: when two invocations are in progress at once over the shared store,
\* no step of one changes the state or the Result of the other, and under
\* every interleaving each returns the Result it returns when run alone
C18_ConcurrentIsolation ==
    /\ [](/\ Done => result = RunAlone(args.ticket_text, args.order_id)
          /\ (peer.pc = "idle" /\ peer.result # Null) =>
                peer.result = RunAlone(peer.args.ticket_text, peer.args.order_id))
    /\ [][/\ peer' # peer => state' = state /\ result' = result /\ store' = store
          /\ (state' # state \/ result' # result) => peer' = peer /\ store' = store
       ]_vars

\* both invocations have returned, steps of the second were taken while the
\* first was in progress, and their arguments and Results differ
C18_Witness ==
    /\ Done
    /\ peer.pc = "idle"
    /\ peer.result # Null
    /\ peer.overlapped
    /\ Truthy(args.order_id)
    /\ ~Truthy(peer.args.order_id)
    /\ peer.args.ticket_text # args.ticket_text
    /\ peer.result # result

====
